---- MODULE Spec2Model ----
(***************************************************************************)
(* Action Controller: POST /actions/execute validates an envelope          *)
(* {action, args, mode}, looks the action up in the registry (router.ts),  *)
(* forwards {...args, mode} with makeRequest (services/httpClient.ts) and  *)
(* relays the downstream status and body.                                  *)
(*                                                                         *)
(* JavaScript values are tagged records:                                   *)
(*   [t |-> "undefined"], [t |-> "string", s |-> "..."],                  *)
(*   [t |-> "number", s |-> <its decimal text>], [t |-> "null"],           *)
(*   [t |-> "boolean", s |-> "true" or "false"],                           *)
(*   [t |-> "array", a |-> <<values>>],                                    *)
(*   [t |-> "object", o |-> << <<key, value>>, ... >>]  (own properties    *)
(*   in insertion order), [t |-> "function"] (a built-in function object). *)
(***************************************************************************)
EXTENDS Integers, Sequences, FiniteSets, TLC

\* ------------------------------------------------------------ bounds
\* Number of inbound requests to POST /actions/execute, all of which may be
\* in flight at the same time.
NumRequests == 2

Requests == 1..NumRequests

\* ------------------------------------------------------------ JS values
Undef == [t |-> "undefined"]

Str(s) == [t |-> "string", s |-> s]

Num(s) == [t |-> "number", s |-> s]

Arr(a) == [t |-> "array", a |-> a]

Obj(o) == [t |-> "object", o |-> o]

BuiltinFunction == [t |-> "function"]

Null == [t |-> "null"]

Bool(s) == [t |-> "boolean", s |-> s]

\* ToBoolean: what `!x` tests.
Truthy(v) ==
  CASE v.t = "undefined" -> FALSE
    [] v.t = "null" -> FALSE
    [] v.t = "boolean" -> v.s = "true"
    [] v.t = "string" -> v.s # ""
    [] v.t = "number" -> v.s \notin {"0", "NaN"}
    [] OTHER -> TRUE

RECURSIVE JoinComma(_)
JoinComma(strs) ==
  IF Len(strs) = 0 THEN ""
  ELSE IF Len(strs) = 1 THEN strs[1]
  ELSE strs[1] \o "," \o JoinComma(Tail(strs))

\* ToStringJS / ToPropertyKey: what `${x}` and `obj[x]` use.
RECURSIVE ToStringJS(_)
ToStringJS(v) ==
  CASE v.t = "undefined" -> "undefined"
    [] v.t = "null" -> "null"
    [] v.t = "boolean" -> v.s
    [] v.t = "string" -> v.s
    [] v.t = "number" -> v.s
    [] v.t = "array" -> JoinComma([i \in 1..Len(v.a) |-> ToStringJS(v.a[i])])
    [] v.t = "function" -> "function () { [native code] }"
    [] OTHER -> "[object Object]"

\* String.prototype.startsWith
StartsWith(s, prefix) ==
  /\ Len(s) >= Len(prefix)
  /\ SubSeq(s, 1, Len(prefix)) = prefix

Digits == <<"0", "1", "2", "3", "4", "5", "6", "7", "8", "9">>

\* Own enumerable properties, in order: what `...x` copies.
OwnEnumerable(v) ==
  CASE v.t = "object" -> v.o
    [] v.t = "string" ->
         [i \in 1..Len(v.s) |-> <<Digits[i], Str(SubSeq(v.s, i, i))>>]
    [] v.t = "array" -> [i \in 1..Len(v.a) |-> <<Digits[i], v.a[i]>>]
    [] OTHER -> << >>

KeysOf(pairs) == [i \in 1..Len(pairs) |-> pairs[i][1]]

KeySet(pairs) == {pairs[i][1] : i \in 1..Len(pairs)}

HasOwn(pairs, k) == k \in KeySet(pairs)

GetOwn(pairs, k) == pairs[CHOOSE i \in 1..Len(pairs) : pairs[i][1] = k][2]

\* CreateDataProperty: an existing key keeps its place and gets the new value,
\* a new key is appended.
SetProp(pairs, k, v) ==
  IF HasOwn(pairs, k)
  THEN [i \in 1..Len(pairs) |-> IF pairs[i][1] = k THEN <<k, v>> ELSE pairs[i]]
  ELSE Append(pairs, <<k, v>>)

\* { ...target, ...source } on property lists.
RECURSIVE SpreadInto(_, _)
SpreadInto(target, source) ==
  IF Len(source) = 0 THEN target
  ELSE SpreadInto(SetProp(target, source[1][1], source[1][2]), Tail(source))

\* JSON.stringify (the inputs hold no character that needs escaping).
RECURSIVE JSONStringify(_)
JSONStringify(v) ==
  CASE v.t = "string" -> "\"" \o v.s \o "\""
    [] v.t = "number" -> v.s
    [] v.t = "boolean" -> v.s
    [] v.t = "array" ->
         "[" \o JoinComma([i \in 1..Len(v.a) |-> JSONStringify(v.a[i])]) \o "]"
    [] v.t = "object" ->
         "{" \o JoinComma([i \in 1..Len(v.o) |->
                  "\"" \o v.o[i][1] \o "\":" \o JSONStringify(v.o[i][2])]) \o "}"
    [] OTHER -> "null"

\* ------------------------------------------------------------ registry
\* Property names every object literal inherits from Object.prototype.
ObjectPrototypeKeys ==
  {"constructor", "toString", "valueOf", "hasOwnProperty", "__proto__"}

\* obj[key]: an own property, else what the prototype chain gives, else
\* undefined.
GetProperty(obj, key) ==
  IF obj.t = "object" /\ HasOwn(obj.o, key) THEN GetOwn(obj.o, key)
  ELSE IF obj.t = "object" /\ key \in ObjectPrototypeKeys
       THEN (IF key = "__proto__" THEN Obj(<< >>) ELSE BuiltinFunction)
  ELSE Undef

HR_SERVICE_BASE_URL == "http://localhost:3001"

ServiceConfig(url, method) ==
  Obj(<< <<"url", Str(url)>>, <<"method", Str(method)>> >>)

hrServiceConfig ==
  Obj(<< <<"CreateEmployee",
           ServiceConfig(HR_SERVICE_BASE_URL \o "/employees/create", "POST")>>,
         <<"UpdateEmployee",
           ServiceConfig(HR_SERVICE_BASE_URL \o "/employees/update", "POST")>>,
         <<"DeleteEmployee",
           ServiceConfig(HR_SERVICE_BASE_URL \o "/employees/delete", "POST")>>,
         <<"GetEmployee",
           ServiceConfig(HR_SERVICE_BASE_URL \o "/employees/get", "GET")>> >>)

\* const actionRegistry = { ...hrServiceConfig }
actionRegistry == Obj(SpreadInto(<< >>, OwnEnumerable(hrServiceConfig)))

\* Object.keys(actionRegistry): a new array on every call.
getRegisteredActions(reg) == Arr([i \in 1..Len(reg.o) |-> Str(reg.o[i][1])])

\* ------------------------------------------------------------ makeRequest
Options(method, headers, body) ==
  [method |-> method, headers |-> headers, body |-> body]

\* The argument makeRequest hands to fetch:
\*   const { method = 'POST', headers = {}, body } = options
\*   fetch(url, { method, headers: {'Content-Type': ..., ...headers},
\*                body: body ? JSON.stringify(body) : undefined })
makeRequest(url, options) ==
  [url |-> url,
   method |-> IF options.method = Undef THEN Str("POST") ELSE options.method,
   headers |-> Obj(SpreadInto(<< <<"Content-Type", Str("application/json")>> >>,
                              OwnEnumerable(options.headers))),
   body |-> IF Truthy(options.body)
            THEN Str(JSONStringify(options.body)) ELSE Undef]

Error(message) == [message |-> Str(message)]

ParsableUrl(u) ==
  u.t = "string" /\ (StartsWith(u.s, "http://") \/ StartsWith(u.s, "https://"))

\* fetch rejects without contacting the network when the URL does not parse
\* or when a GET/HEAD request is given a body (Fetch standard, Request
\* constructor); "" when it goes to the network.
FetchTypeError(init) ==
  IF ~ParsableUrl(init.url)
  THEN "Failed to parse URL from " \o ToStringJS(init.url)
  ELSE IF init.method \in {Str("GET"), Str("HEAD")} /\ init.body # Undef
  THEN "Request with GET/HEAD method cannot have body."
  ELSE ""

\* ------------------------------------------------------------ routeAction
\* routeAction with the merge written { mode, ...args }: a 'mode' key of args
\* overwrites the envelope's mode.
routeActionArgsOverMode(payload, reg) ==
  LET serviceConfig == GetProperty(reg, ToStringJS(payload.action)) IN
  IF ~Truthy(serviceConfig)
  THEN [threw |-> TRUE,
        error |-> Error("Unknown action: " \o ToStringJS(payload.action))]
  ELSE [threw |-> FALSE,
        url |-> GetProperty(serviceConfig, "url"),
        options |-> Options(GetProperty(serviceConfig, "method"), Undef,
                            Obj(SpreadInto(<< <<"mode", payload.mode>> >>,
                                           OwnEnumerable(payload.args))))]

\* The synchronous part of routeAction, up to the await of makeRequest:
\* either it throws, or it calls makeRequest(call.url, call.options).
routeAction(payload, reg) ==
  LET serviceConfig == GetProperty(reg, ToStringJS(payload.action)) IN
  IF ~Truthy(serviceConfig)
  THEN [threw |-> TRUE,
        error |-> Error("Unknown action: " \o ToStringJS(payload.action))]
  ELSE [threw |-> FALSE,
        url |-> GetProperty(serviceConfig, "url"),
        options |-> Options(GetProperty(serviceConfig, "method"), Undef,
                            Obj(SetProp(SpreadInto(<< >>,
                                          OwnEnumerable(payload.args)),
                                        "mode", payload.mode)))]

\* ------------------------------------------------------------ handler
Response(status, body) == [status |-> status, body |-> body]

\* The three validation checks of the handler, in order; "" when the
\* envelope passes.
ValidationError(action, args, mode) ==
  IF ~Truthy(action) THEN "Missing required field: action"
  ELSE IF ~Truthy(args) THEN "Missing required field: args"
  ELSE IF ~Truthy(mode) \/ mode \notin {Str("simulate"), Str("execute")}
  THEN "Invalid or missing mode. Must be \"simulate\" or \"execute\""
  ELSE ""

\* The catch block without the `return` in front of its 404: the 500 is
\* sent as well.
CatchResponsesFallThrough(error, reg) ==
  (IF error.message.t = "string" /\ StartsWith(error.message.s, "Unknown action:")
   THEN << Response(404, Obj(<< <<"error", error.message>>,
                                <<"availableActions", getRegisteredActions(reg)>> >>)) >>
   ELSE << >>)
  \o << Response(500, Obj(<< <<"error", Str("Internal server error")>>,
                             <<"message", error.message>> >>)) >>

\* The catch block: the responses it sends, in order.
CatchResponses(error, reg) ==
  IF error.message.t = "string" /\ StartsWith(error.message.s, "Unknown action:")
  THEN << Response(404, Obj(<< <<"error", error.message>>,
                               <<"availableActions", getRegisteredActions(reg)>> >>)) >>
  ELSE << Response(500, Obj(<< <<"error", Str("Internal server error")>>,
                               <<"message", error.message>> >>)) >>

\* The success path with a downstream error status wrapped in a 500.
SuccessResponsesWrapped(result) ==
  IF result.status >= 400
  THEN << Response(500, Obj(<< <<"error", Str("Internal server error")>>,
                               <<"message", Str("Downstream error")>> >>)) >>
  ELSE << Response(result.status, result.data) >>

\* The success path: res.status(result.status).json(result.data)
SuccessResponses(result) == << Response(result.status, result.data) >>

\* const { action, args, mode } = req.body throws when req.body is undefined.
DestructureError ==
  Error("Cannot destructure property 'action' of 'req.body' as it is undefined.")

NoCall == [threw |-> TRUE]

\* The handler from its entry to its first suspension: the responses sent
\* (none while the outbound call is pending) and the makeRequest call made.
HandlerEntry(body, reg) ==
  IF body.t = "undefined"
  THEN [sent |-> CatchResponses(DestructureError, reg), routed |-> NoCall]
  ELSE
    LET action == GetProperty(body, "action")
        args   == GetProperty(body, "args")
        mode   == GetProperty(body, "mode")
        invalid == ValidationError(action, args, mode)
        routed == routeAction([action |-> action, args |-> args, mode |-> mode], reg)
    IN IF invalid # ""
       THEN [sent |-> << Response(400, Obj(<< <<"error", Str(invalid)>> >>)) >>,
             routed |-> NoCall]
       ELSE IF routed.threw
       THEN [sent |-> CatchResponses(routed.error, reg), routed |-> NoCall]
       ELSE [sent |-> << >>, routed |-> routed]

\* ------------------------------------------------------------ inputs
IfDefined(k, v) == IF v = Undef THEN << >> ELSE << <<k, v>> >>

\* A JSON request body with the given fields; an undefined field is absent.
Envelope(action, args, mode) ==
  Obj(IfDefined("action", action) \o IfDefined("args", args) \o IfDefined("mode", mode))

ActionInputs ==
  {Undef, Str(""), Str("CreateEmployee"), Str("GetEmployee"),
   Str("DeleteUniverse"), Str("constructor"), Num("5")}

ArgsInputs ==
  {Undef, Obj(<< >>),
   Obj(<< <<"name", Str("Alice Smith")>>, <<"email", Str("alice@company.com")>> >>),
   Obj(<< <<"mode", Str("stale")>>, <<"id", Str("emp_123")>> >>),
   Str("ab")}

ModeInputs == {Undef, Str("simulate"), Str("execute"), Str("Execute")}

\* req.body as the handler sees it: undefined when the request carried no
\* body and the body parser leaves req.body unset, else the parsed object.
RequestBodies ==
  {Undef} \cup {Envelope(a, g, m) : a \in ActionInputs, g \in ArgsInputs, m \in ModeInputs}

\* What the downstream service and the transport can do.
DownstreamStatuses == {200, 404, 500}

DownstreamData ==
  {Obj(<< <<"id", Str("emp_123")>>, <<"status", Str("created")>> >>),
   Obj(<< <<"error", Str("Employee not found")>> >>)}

FetchErrorMessages == {"fetch failed", "Unknown action: upstream"}

JsonErrorMessages == {"Unexpected token < in JSON at position 0"}

Timestamps == {"2025-01-15T10:30:00.000Z"}

\* ------------------------------------------------------------ state
VARIABLES
  registry,    \* the module-level actionRegistry object
  pc,          \* per request: "idle", "fetching", "reading", "done"
  reqBody,     \* per request: req.body
  calls,       \* per request: the makeRequest invocations [url, options]
  fetched,     \* per request: the arguments handed to fetch
  downstream,  \* per request: what the transport and the downstream did
  responses,   \* per request: the responses written to the client
  probe,       \* the last response of GET /health or GET /
  returned,    \* an array obtained from getRegisteredActions(), held by a caller
  services,    \* the per-service mappings spread into the registry, in order
  direct       \* the last call of makeRequest made by another caller than routeAction

vars == <<registry, pc, reqBody, calls, fetched, downstream, responses, probe, returned,
          services, direct>>

None == [k |-> "none"]

Init ==
  /\ registry = actionRegistry
  /\ pc = [r \in Requests |-> "idle"]
  /\ reqBody = [r \in Requests |-> Undef]
  /\ calls = [r \in Requests |-> << >>]
  /\ fetched = [r \in Requests |-> << >>]
  /\ downstream = [r \in Requests |-> None]
  /\ responses = [r \in Requests |-> << >>]
  /\ probe = None
  /\ returned = None
  /\ services = << hrServiceConfig >>
  /\ direct = None

\* POST /actions/execute arrives with req.body = body and the handler runs
\* to its first suspension (await fetch) or to its response.
Receive(r, body) ==
  /\ pc[r] = "idle"
  /\ LET h == HandlerEntry(body, registry) IN
       /\ reqBody' = [reqBody EXCEPT ![r] = body]
       /\ responses' = [responses EXCEPT ![r] = @ \o h.sent]
       /\ IF h.routed.threw
          THEN /\ pc' = [pc EXCEPT ![r] = "done"]
               /\ UNCHANGED <<calls, fetched>>
          ELSE /\ pc' = [pc EXCEPT ![r] = "fetching"]
               /\ calls' = [calls EXCEPT ![r] =
                    Append(@, [url |-> h.routed.url, options |-> h.routed.options])]
               /\ fetched' = [fetched EXCEPT ![r] =
                    Append(@, makeRequest(h.routed.url, h.routed.options))]
  /\ UNCHANGED <<registry, downstream, probe, returned>>
  /\ UNCHANGED <<services, direct>>

\* The errors the pending fetch of request r can reject with: the TypeError
\* of an unusable request, else whatever the transport reports.
FetchRejections(r) ==
  IF fetched[r] = << >> THEN {}
  ELSE LET typeError == FetchTypeError(fetched[r][Len(fetched[r])]) IN
       IF typeError # "" THEN {typeError} ELSE FetchErrorMessages

\* await fetch(...) rejects: makeRequest logs and rethrows, routeAction lets
\* it through, the handler's catch block answers.
FetchReject(r, message) ==
  /\ pc[r] = "fetching"
  /\ message \in FetchRejections(r)
  /\ downstream' = [downstream EXCEPT ![r] = [k |-> "rejected", message |-> message]]
  /\ responses' = [responses EXCEPT ![r] = @ \o CatchResponses(Error(message), registry)]
  /\ pc' = [pc EXCEPT ![r] = "done"]
  /\ UNCHANGED <<registry, reqBody, calls, fetched, probe, returned>>
  /\ UNCHANGED <<services, direct>>

\* await fetch(...) resolves with a response of the given status.
FetchResolve(r, status) ==
  /\ pc[r] = "fetching"
  /\ FetchTypeError(fetched[r][Len(fetched[r])]) = ""
  /\ downstream' = [downstream EXCEPT ![r] = [k |-> "headers", status |-> status]]
  /\ pc' = [pc EXCEPT ![r] = "reading"]
  /\ UNCHANGED <<registry, reqBody, calls, fetched, responses, probe, returned>>
  /\ UNCHANGED <<services, direct>>

\* JsonResolve with the response kept in a module-level variable that
\* concurrent requests share: the status relayed is that of the
\* lowest-numbered request whose body is being read.
JsonResolveShared(r, data) ==
  /\ pc[r] = "reading"
  /\ LET shared == CHOOSE q \in Requests :
                     /\ pc[q] = "reading"
                     /\ \A o \in Requests : pc[o] = "reading" => q <= o
         result == [status |-> downstream[shared].status, data |-> data]
     IN /\ downstream' = [downstream EXCEPT ![r] =
             [k |-> "response", status |-> downstream[r].status, data |-> data]]
        /\ responses' = [responses EXCEPT ![r] = @ \o SuccessResponses(result)]
  /\ pc' = [pc EXCEPT ![r] = "done"]
  /\ UNCHANGED <<registry, reqBody, calls, fetched, probe, returned>>
  /\ UNCHANGED <<services, direct>>

\* await response.json() resolves with data: makeRequest returns
\* {status, data}, routeAction returns it and the handler relays it.
JsonResolve(r, data) ==
  /\ pc[r] = "reading"
  /\ LET result == [status |-> downstream[r].status, data |-> data] IN
       /\ downstream' = [downstream EXCEPT ![r] =
            [k |-> "response", status |-> result.status, data |-> data]]
       /\ responses' = [responses EXCEPT ![r] = @ \o SuccessResponses(result)]
  /\ pc' = [pc EXCEPT ![r] = "done"]
  /\ UNCHANGED <<registry, reqBody, calls, fetched, probe, returned>>
  /\ UNCHANGED <<services, direct>>

\* await response.json() rejects: the body is not JSON.
JsonReject(r, message) ==
  /\ pc[r] = "reading"
  /\ downstream' = [downstream EXCEPT ![r] =
       [k |-> "unparsable", status |-> downstream[r].status, message |-> message]]
  /\ responses' = [responses EXCEPT ![r] = @ \o CatchResponses(Error(message), registry)]
  /\ pc' = [pc EXCEPT ![r] = "done"]
  /\ UNCHANGED <<registry, reqBody, calls, fetched, probe, returned>>
  /\ UNCHANGED <<services, direct>>

\* GET /health
Health(timestamp) ==
  /\ probe' = Response(200, Obj(<< <<"status", Str("ok")>>,
                                   <<"timestamp", Str(timestamp)>>,
                                   <<"registeredActions", getRegisteredActions(registry)>> >>))
  /\ returned' = getRegisteredActions(registry)
  /\ UNCHANGED <<registry, pc, reqBody, calls, fetched, downstream, responses>>
  /\ UNCHANGED <<services, direct>>

\* GET /
Root ==
  /\ probe' = Response(200, Obj(<< <<"service", Str("Action Controller")>>,
                                   <<"version", Str("1.0.0")>>,
                                   <<"endpoints",
                                     Obj(<< <<"execute", Str("POST /actions/execute")>>,
                                            <<"health", Str("GET /health")>> >>)>> >>))
  /\ UNCHANGED <<registry, pc, reqBody, calls, fetched, downstream, responses, returned>>
  /\ UNCHANGED <<services, direct>>

\* PushToReturned against a getRegisteredActions() that hands out the
\* registry's own key list: the push adds a key to the registry.
PushToReturnedAliased(name) ==
  /\ returned # None
  /\ returned = getRegisteredActions(registry)
  /\ returned' = Arr(Append(returned.a, Str(name)))
  /\ registry' = Obj(Append(registry.o, <<name, Undef>>))
  /\ UNCHANGED <<pc, reqBody, calls, fetched, downstream, responses, probe>>
  /\ UNCHANGED <<services, direct>>

\* A caller of getRegisteredActions() writes to the array it was given
\* (push); Object.keys built that array, the registry holds no reference to it.
PushToReturned(name) ==
  /\ returned # None
  /\ returned = getRegisteredActions(registry)
  /\ returned' = Arr(Append(returned.a, Str(name)))
  /\ UNCHANGED <<registry, pc, reqBody, calls, fetched, downstream, responses, probe>>
  /\ UNCHANGED <<services, direct>>

\* The envelopes of the concurrent specification: no body, two valid
\* CreateEmployee envelopes, a GET route, an unknown action, an inherited
\* property name and an invalid mode.
ConcurrentBodies ==
  {Undef,
   Envelope(Str("CreateEmployee"), Obj(<< <<"name", Str("Alice Smith")>> >>), Str("execute")),
   Envelope(Str("CreateEmployee"),
            Obj(<< <<"mode", Str("stale")>>, <<"id", Str("emp_123")>> >>), Str("simulate")),
   Envelope(Str("GetEmployee"), Obj(<< <<"id", Str("emp_123")>> >>), Str("execute")),
   Envelope(Str("DeleteUniverse"), Obj(<< >>), Str("execute")),
   Envelope(Str("constructor"), Obj(<< >>), Str("execute")),
   Envelope(Str("CreateEmployee"), Obj(<< >>), Str("Execute"))}

ConcurrentStatuses == {200, 404}

\* Any number of requests in flight at once, in any interleaving.
Next ==
  \/ \E r \in Requests, body \in ConcurrentBodies : Receive(r, body)
  \/ \E r \in Requests : \E m \in FetchRejections(r) : FetchReject(r, m)
  \/ \E r \in Requests, s \in ConcurrentStatuses : FetchResolve(r, s)
  \/ \E r \in Requests, d \in DownstreamData : JsonResolve(r, d)
  \/ \E r \in Requests, m \in JsonErrorMessages : JsonReject(r, m)
  \/ \E t \in Timestamps : Health(t)
  \/ Root
  \/ PushToReturned("Injected")

Spec == Init /\ [][Next]_vars

\* One request, over every request body.
NextRequest ==
  \/ \E body \in RequestBodies : Receive(1, body)
  \/ \E m \in FetchRejections(1) : FetchReject(1, m)
  \/ \E s \in DownstreamStatuses : FetchResolve(1, s)
  \/ \E d \in DownstreamData : JsonResolve(1, d)
  \/ \E m \in JsonErrorMessages : JsonReject(1, m)
  \/ \E t \in Timestamps : Health(t)
  \/ Root
  \/ PushToReturned("Injected")

SpecRequest == Init /\ [][NextRequest]_vars

\* ------------------------------------------------------------ properties
Received(r) == pc[r] # "idle"

Finished(r) == pc[r] = "done"

ReqAction(r) == GetProperty(reqBody[r], "action")

ReqArgs(r) == GetProperty(reqBody[r], "args")

ReqMode(r) == GetProperty(reqBody[r], "mode")

\* The envelope as the specification defines it: a non-empty string, a
\* mapping, one of the two modes.
NonEmptyString(v) == v.t = "string" /\ v.s # ""

IsMapping(v) == v.t = "object"

ValidMode(v) == v \in {Str("simulate"), Str("execute")}

WellFormed(r) ==
  /\ reqBody[r].t = "object"
  /\ NonEmptyString(ReqAction(r))
  /\ IsMapping(ReqArgs(r))
  /\ ValidMode(ReqMode(r))

\* The name is one of the registry's keys.
Registered(v) == v.t = "string" /\ v.s \in KeySet(actionRegistry.o)

\* The handler reached routeAction: the body passed the handler's checks.
Routed(r) ==
  /\ Received(r)
  /\ reqBody[r].t = "object"
  /\ ValidationError(ReqAction(r), ReqArgs(r), ReqMode(r)) = ""

Payload(r) == [action |-> ReqAction(r), args |-> ReqArgs(r), mode |-> ReqMode(r)]

\* C1: for every action name that is not a key of the registry (inherited
\* names such as 'constructor' included), routeAction fails with the error
\* 'Unknown action: <name>' and makeRequest is never invoked for the request.
C1_UnknownActionFails ==
  \A r \in Requests :
    (Routed(r) /\ ReqAction(r).t = "string" /\ ~Registered(ReqAction(r)))
      => /\ calls[r] = << >>
         /\ routeAction(Payload(r), registry).threw
         /\ routeAction(Payload(r), registry).error
              = Error("Unknown action: " \o ReqAction(r).s)

\* C2: for a registered action, routeAction invokes makeRequest exactly once,
\* with the URL and method of the action's route descriptor and with a body
\* whose keys are those of args plus 'mode', where 'mode' holds the
\* envelope's mode and every other key holds the value it has in args.
C2_ForwardsDescriptorAndMergedBody ==
  \A r \in Requests :
    (Routed(r) /\ Registered(ReqAction(r)) /\ IsMapping(ReqArgs(r)))
      => /\ Len(calls[r]) = 1
         /\ LET descriptor == GetOwn(actionRegistry.o, ReqAction(r).s)
                call == calls[r][1]
                sent == call.options.body
            IN /\ call.url = GetOwn(descriptor.o, "url")
               /\ call.options.method = GetOwn(descriptor.o, "method")
               /\ sent.t = "object"
               /\ KeySet(sent.o) = KeySet(ReqArgs(r).o) \cup {"mode"}
               /\ Len(sent.o) = Cardinality(KeySet(sent.o))
               /\ \A k \in KeySet(sent.o) :
                    GetOwn(sent.o, k) =
                      IF k = "mode" THEN ReqMode(r) ELSE GetOwn(ReqArgs(r).o, k)

\* C2 witness: a forwarded request whose args already held a 'mode' key with
\* another value.
C2_Witness ==
  \E r \in Requests :
    /\ Routed(r) /\ Registered(ReqAction(r)) /\ IsMapping(ReqArgs(r))
    /\ HasOwn(ReqArgs(r).o, "mode")
    /\ GetOwn(ReqArgs(r).o, "mode") # ReqMode(r)
    /\ Len(calls[r]) = 1
    /\ GetOwn(calls[r][1].options.body.o, "mode") = ReqMode(r)

\* C3: a request whose action is not a non-empty string, or whose args is
\* absent or not a mapping, or whose mode is not "simulate" or "execute", is
\* answered 400 with an {error} body and reaches neither routeAction nor
\* makeRequest.
C3_InvalidEnvelopeRejected ==
  \A r \in Requests :
    (Received(r) /\ reqBody[r].t = "object" /\ ~WellFormed(r))
      => /\ Finished(r)
         /\ calls[r] = << >>
         /\ Len(responses[r]) = 1
         /\ responses[r][1].status = 400
         /\ KeysOf(responses[r][1].body.o) = <<"error">>

\* C4: when the downstream answered with status s and a JSON body d, the
\* client receives exactly one response, with status s and body d.
C4_DownstreamRelayedVerbatim ==
  \A r \in Requests :
    (Finished(r) /\ downstream[r].k = "response")
      => responses[r] = << Response(downstream[r].status, downstream[r].data) >>

\* C4 witness: a non-2xx downstream answer relayed with its own status.
C4_Witness ==
  \E r \in Requests :
    /\ Finished(r)
    /\ downstream[r].k = "response"
    /\ downstream[r].status = 404
    /\ responses[r] = << Response(404, downstream[r].data) >>

\* The 404 the handler answers for an unknown action.
UnknownActionResponse(name, reg) ==
  Response(404, Obj(<< <<"error", Str("Unknown action: " \o name)>>,
                       <<"availableActions", getRegisteredActions(reg)>> >>))

\* C5: an otherwise valid request for an unknown action is answered 404 with
\* {error: 'Unknown action: <name>', availableActions: all registry keys in
\* order}, and the handler produces that 404 in no other situation.
C5_UnknownActionIs404 ==
  \A r \in Requests :
    Finished(r) =>
      /\ (WellFormed(r) /\ ~Registered(ReqAction(r)))
           => responses[r] = << UnknownActionResponse(ReqAction(r).s, actionRegistry) >>
      /\ (\E i \in 1..Len(responses[r]) :
            /\ responses[r][i].status = 404
            /\ downstream[r].k # "response")
           => (reqBody[r].t = "object" /\ ~Registered(ReqAction(r)))

\* The 500 the handler answers for an unexpected failure.
InternalErrorResponse(message) ==
  Response(500, Obj(<< <<"error", Str("Internal server error")>>,
                       <<"message", Str(message)>> >>))

\* C6: every transport failure (fetch rejected, or the response body is not
\* JSON), whatever its message, is answered with exactly one response,
\* 500 {error: 'Internal server error', message: <the failure's message>}.
C6_TransportFailureIs500 ==
  \A r \in Requests :
    (Finished(r) /\ downstream[r].k \in {"rejected", "unparsable"})
      => responses[r] = << InternalErrorResponse(downstream[r].message) >>

\* The four response shapes of POST /actions/execute.
WellFormedResponse(r, resp) ==
  \/ resp.status = 400 /\ resp.body.t = "object" /\ KeysOf(resp.body.o) = <<"error">>
  \/ /\ resp.status = 404 /\ resp.body.t = "object"
     /\ KeysOf(resp.body.o) = <<"error", "availableActions">>
  \/ /\ resp.status = 500 /\ resp.body.t = "object"
     /\ KeysOf(resp.body.o) = <<"error", "message">>
  \/ /\ downstream[r].k = "response"
     /\ resp = Response(downstream[r].status, downstream[r].data)

C8_AtMostOneForwarderCall ==
  \A r \in Requests :
    /\ Len(calls[r]) <= 1
    /\ Len(fetched[r]) = Len(calls[r])
    /\ Received(r) =>
         (Len(calls[r]) = 1 <=> (WellFormed(r) /\ Registered(ReqAction(r))))

\* C9: two finished requests with the same body and the same outcome of
\* their own downstream call have the same response, whatever else ran in
\* between; and a relayed response carries the request's own downstream
\* status and data, a failure response its own failure's message.
C9_ResponseDependsOnOwnRequestOnly ==
  /\ \A r1, r2 \in Requests :
       (Finished(r1) /\ Finished(r2)
          /\ reqBody[r1] = reqBody[r2] /\ downstream[r1] = downstream[r2])
         => responses[r1] = responses[r2]
  /\ \A r \in Requests :
       Finished(r) =>
         /\ downstream[r].k = "response"
              => responses[r] = << Response(downstream[r].status, downstream[r].data) >>
         /\ downstream[r].k \in {"rejected", "unparsable"}
              => /\ Len(responses[r]) = 1
                 /\ GetOwn(responses[r][1].body.o,
                           IF responses[r][1].status = 404 THEN "error" ELSE "message")
                      = Str(downstream[r].message)

\* C9 witness: two requests with the same body were in flight together, got
\* different downstream answers, and each was answered with its own.
C9_Witness ==
  \E r1, r2 \in Requests :
    /\ r1 # r2
    /\ Finished(r1) /\ Finished(r2)
    /\ reqBody[r1] = reqBody[r2]
    /\ downstream[r1].k = "response" /\ downstream[r2].k = "response"
    /\ downstream[r1].status # downstream[r2].status
    /\ responses[r1] = << Response(downstream[r1].status, downstream[r1].data) >>
    /\ responses[r2] = << Response(downstream[r2].status, downstream[r2].data) >>

\* C10: the registry is in every reachable state the one built at startup,
\* so every lookup and getRegisteredActions() give what they gave at startup,
\* also after a caller changed an array getRegisteredActions() returned.
C10_RegistryNeverChanges ==
  /\ registry = actionRegistry
  /\ getRegisteredActions(registry) =
       Arr(<< Str("CreateEmployee"), Str("UpdateEmployee"),
              Str("DeleteEmployee"), Str("GetEmployee") >>)
  /\ \A name \in {"CreateEmployee", "GetEmployee", "DeleteUniverse", "Injected"} :
       GetProperty(registry, name) = GetProperty(actionRegistry, name)

\* C10 witness: an unknown action was answered, a forward failed, the health
\* endpoint was called and the array it got was changed.
C10_Witness ==
  /\ returned # None
  /\ returned # getRegisteredActions(registry)
  /\ probe # None
  /\ \E r \in Requests : Finished(r) /\ responses[r][1].status = 404
  /\ \E r \in Requests : Finished(r) /\ downstream[r].k = "rejected"

\* ------------------------------------------------------------ startup
\* Number of per-service mappings spread into the registry at startup.
MaxServices == 2

ServiceActionNames == <<"CreateEmployee", "CreateInvoice", "ProcessPayment">>

\* A per-service mapping as services/hr.ts writes one: the given action
\* names, each routed to <base URL>/<name> with the given method.
ServiceMapping(baseUrl, names, method) ==
  Obj([i \in 1..Len(names) |->
         <<names[i], ServiceConfig(baseUrl \o "/" \o names[i], method)>>])

ServiceMappings ==
  {ServiceMapping(b, SelectSeq(ServiceActionNames, LAMBDA n : n \in chosen), m) :
     b \in {HR_SERVICE_BASE_URL, "http://localhost:3002"},
     chosen \in (SUBSET {ServiceActionNames[i] : i \in 1..Len(ServiceActionNames)}) \ {{}},
     m \in {"POST", "GET"}}

\* The object literal of the registry before any mapping is spread into it.
InitStartup ==
  /\ registry = Obj(<< >>)
  /\ services = << >>
  /\ pc = [r \in Requests |-> "idle"]
  /\ reqBody = [r \in Requests |-> Undef]
  /\ calls = [r \in Requests |-> << >>]
  /\ fetched = [r \in Requests |-> << >>]
  /\ downstream = [r \in Requests |-> None]
  /\ responses = [r \in Requests |-> << >>]
  /\ probe = None
  /\ returned = None
  /\ direct = None

\* The registry literal written { ...config, ...registry }: what is already
\* there overwrites the mapping spread after it.
MergeServiceFirstWins(config) ==
  /\ Len(services) < MaxServices
  /\ services' = Append(services, config)
  /\ registry' = Obj(SpreadInto(OwnEnumerable(config), registry.o))
  /\ UNCHANGED <<pc, reqBody, calls, fetched, downstream, responses, probe, returned, direct>>

\* The next `...config` of the registry literal: { ...registry, ...config }.
MergeService(config) ==
  /\ Len(services) < MaxServices
  /\ services' = Append(services, config)
  /\ registry' = Obj(SpreadInto(registry.o, OwnEnumerable(config)))
  /\ UNCHANGED <<pc, reqBody, calls, fetched, downstream, responses, probe, returned, direct>>

NextStartup == \E config \in ServiceMappings : MergeService(config)

SpecStartup == InitStartup /\ [][NextStartup]_vars

DirectUrls == {Str(HR_SERVICE_BASE_URL \o "/employees/create")}

DirectMethods == {Undef, Str("POST"), Str("GET")}

DirectHeaders ==
  {Undef, Obj(<< >>), Obj(<< <<"X-Request-Id", Str("42")>> >>),
   Obj(<< <<"Content-Type", Str("text/plain")>> >>)}

DirectBodies ==
  {Undef, Null, Bool("false"), Num("0"), Str(""),
   Obj(<< >>), Obj(<< <<"name", Str("Alice Smith")>> >>), Arr(<< >>)}

\* makeRequest(url, options) is called; fetch is handed direct.init.
CallMakeRequest(url, options) ==
  /\ direct' = [url |-> url, options |-> options, init |-> makeRequest(url, options)]
  /\ UNCHANGED <<registry, pc, reqBody, calls, fetched, downstream, responses, probe,
                 returned, services>>

\* Calls of makeRequest by any caller, and those routeAction makes.
NextForwarder ==
  \/ \E u \in DirectUrls, m \in DirectMethods, h \in DirectHeaders, b \in DirectBodies :
       CallMakeRequest(u, Options(m, h, b))
  \/ \E body \in ConcurrentBodies : Receive(1, body)

SpecForwarder == Init /\ [][NextForwarder]_vars

\* String.prototype.includes
Includes(s, part) ==
  \E i \in 1..(Len(s) - Len(part) + 1) : SubSeq(s, i, i + Len(part) - 1) = part

\* C12: every call of makeRequest hands fetch the header Content-Type:
\* application/json (stated here for the callers that pass no Content-Type of
\* their own), and a JSON text as body exactly when the caller provided a
\* body (a falsy one included); every call routeAction makes, whatever the
\* route's method, carries a JSON body that holds the envelope's mode.
C12_BodySentIffProvided ==
  /\ direct # None =>
       /\ GetProperty(direct.options.headers, "Content-Type") = Undef
            => GetProperty(direct.init.headers, "Content-Type") = Str("application/json")
       /\ (direct.init.body = Undef) <=> (direct.options.body = Undef)
       /\ direct.init.body # Undef => direct.init.body.t = "string"
  /\ \A r \in Requests : \A i \in 1..Len(fetched[r]) :
       /\ GetProperty(fetched[r][i].headers, "Content-Type") = Str("application/json")
       /\ fetched[r][i].body.t = "string"
       /\ Includes(fetched[r][i].body.s, "\"mode\":" \o JSONStringify(ReqMode(r)))

====
